---------------------------- MODULE Spec2Model ----------------------------
(***************************************************************************)
(* Model of generate_meal_plan_pdf.py: parse_meal_plan (a one-pass line    *)
(* scan building a day -> slot -> text mapping), create_pdf (the table     *)
(* rows handed to the layout library) and the main script around them.     *)
(*                                                                         *)
(* A Python str is modelled as a sequence of one-character strings, so     *)
(* that strip, startswith, replace, split and re.sub are computed the way  *)
(* Python computes them. Dictionary keys that are only ever literals of    *)
(* the code (the six slot names) are TLA+ strings.                         *)
(***************************************************************************)
EXTENDS Integers, Sequences, FiniteSets, TLC

VARIABLES pc, content, lines, idx, current_day, meal_plan,
          table_data, console, output, exc

vars == <<pc, content, lines, idx, current_day, meal_plan,
          table_data, console, output, exc>>

(***************************************************************************)
(* Literals of the source.                                                 *)
(***************************************************************************)
Monday    == <<"M","o","n","d","a","y">>
Tuesday   == <<"T","u","e","s","d","a","y">>
Wednesday == <<"W","e","d","n","e","s","d","a","y">>
Thursday  == <<"T","h","u","r","s","d","a","y">>
Friday    == <<"F","r","i","d","a","y">>
Saturday  == <<"S","a","t","u","r","d","a","y">>
Sunday    == <<"S","u","n","d","a","y">>

\* days of parse_meal_plan
days == <<Monday, Tuesday, Wednesday, Thursday, Friday, Saturday, Sunday>>

\* the list with its first two days exchanged
PdfDaysSwapped == <<Tuesday, Monday, Wednesday, Thursday, Friday, Saturday, Sunday>>

\* days of create_pdf
PdfDays == <<Monday, Tuesday, Wednesday, Thursday, Friday, Saturday, Sunday>>

BreakfastPrefix       == <<"B","r","e","a","k","f","a","s","t",":">>
MidMorningSnackPrefix == <<"M","i","d","-","M","o","r","n","i","n","g"," ","S","n","a","c","k",":">>
LunchPrefix           == <<"L","u","n","c","h",":">>
AfternoonSnackPrefix  == <<"A","f","t","e","r","n","o","o","n"," ","S","n","a","c","k",":">>
DinnerPrefix          == <<"D","i","n","n","e","r",":">>
EveningPrefix         == <<"E","v","e","n","i","n","g">>
EveningIfNeededPrefix == <<"E","v","e","n","i","n","g"," ","(","i","f"," ","n","e","e","d","e","d",")",":">>

\* header of create_pdf
header == << <<"D","a","y">>, <<"B","r","e","a","k","f","a","s","t">>, <<"M","i","d","-","M","o","r","n","i","n","g","<","b","r","/",">","S","n","a","c","k">>, <<"L","u","n","c","h">>,
             <<"A","f","t","e","r","n","o","o","n","<","b","r","/",">","S","n","a","c","k">>, <<"D","i","n","n","e","r">>, <<"E","v","e","n","i","n","g">> >>

\* The three messages of the script (the tick that opens the last one is
\* left out).
MsgParsing    == "Parsing meal plan from meal_plan.html..."
MsgGenerating == "Generating PDF: meal_plan.pdf..."
MsgSuccess    == "PDF created successfully: meal_plan.pdf"

\* Python's None, for current_day: current_day is only ever None or a day
\* literal, and `elif current_day` is false exactly for None.
None == <<>>

\* The empty dict {}.
EmptyDict == <<>>

(***************************************************************************)
(* Python's string operations.                                             *)
(***************************************************************************)
\* The characters str.strip() removes (ASCII whitespace).
Whitespace == {" ", "\t", "\n", "\r", "\f"}

RECURSIVE LStrip(_)
LStrip(s) ==
    IF s = <<>> THEN s
    ELSE IF Head(s) \in Whitespace THEN LStrip(Tail(s)) ELSE s

RECURSIVE RStrip(_)
RStrip(s) ==
    IF s = <<>> THEN s
    ELSE IF s[Len(s)] \in Whitespace THEN RStrip(SubSeq(s, 1, Len(s) - 1)) ELSE s

\* str.strip()
Strip(s) == RStrip(LStrip(s))

\* str.startswith(p)
StartsWith(s, p) == Len(s) >= Len(p) /\ SubSeq(s, 1, Len(p)) = p

\* s[n:]
Drop(s, n) == SubSeq(s, n + 1, Len(s))

\* str.replace(old, ''): every non-overlapping occurrence of old, scanning
\* from the left, is removed.
RECURSIVE Replace(_, _)
Replace(s, old) ==
    IF s = <<>> THEN <<>>
    ELSE IF StartsWith(s, old) THEN Replace(Drop(s, Len(old)), old)
    ELSE <<Head(s)>> \o Replace(Tail(s), old)

\* str.split('\n'): always at least one piece, none holding a newline.
RECURSIVE Split(_)
Split(s) ==
    LET nl == {i \in 1..Len(s) : s[i] = "\n"}
    IN  IF nl = {} THEN <<s>>
        ELSE LET i == CHOOSE j \in nl : \A k \in nl : j <= k
             IN  <<SubSeq(s, 1, i - 1)>> \o Split(Drop(s, i))

\* The ends of the matches of ^Evening.*?: at the start of s: a colon after
\* "Evening" with no newline in between ('.' does not match a newline).
EveningColons(s) ==
    {i \in (Len(EveningPrefix) + 1)..Len(s) :
        /\ s[i] = ":"
        /\ \A k \in (Len(EveningPrefix) + 1)..(i - 1) : s[k] # "\n"}

\* re.sub with the pattern made greedy (^Evening.*:), cutting at the last colon
ReSubEveningGreedy(s) ==
    IF StartsWith(s, EveningPrefix) /\ EveningColons(s) # {}
    THEN Drop(s, CHOOSE i \in EveningColons(s) : \A k \in EveningColons(s) : k <= i)
    ELSE s

\* a partition-style cut: nothing is left when there is no colon
ReSubEveningPartition(s) ==
    IF StartsWith(s, EveningPrefix) /\ EveningColons(s) # {}
    THEN Drop(s, CHOOSE i \in EveningColons(s) : \A k \in EveningColons(s) : i <= k)
    ELSE <<>>

\* re.sub(r'^Evening.*?:', '', s): the lazy match ends at the first colon;
\* ^ matches at the start only, so at most one match is removed, and a
\* string without a match is returned unchanged.
ReSubEvening(s) ==
    IF StartsWith(s, EveningPrefix) /\ EveningColons(s) # {}
    THEN Drop(s, CHOOSE i \in EveningColons(s) : \A k \in EveningColons(s) : i <= k)
    ELSE s

\* x in aList
InList(x, list) == \E i \in 1..Len(list) : list[i] = x

\* substring test, 'old in s'
RECURSIVE Contains(_, _)
Contains(s, old) ==
    IF Len(s) < Len(old) THEN FALSE
    ELSE StartsWith(s, old) \/ Contains(Tail(s), old)

(***************************************************************************)
(* parse_meal_plan: the body of the loop over the lines.                   *)
(***************************************************************************)
\* the dict literal with one key misspelt
EmptySlotsTypo ==
    ("Breakfast" :> <<>>) @@ ("Mid-Morning  Snack" :> <<>>) @@ ("Lunch" :> <<>>) @@
    ("Afternoon Snack" :> <<>>) @@ ("Dinner" :> <<>>) @@ ("Evening" :> <<>>)

\* The dict literal a day line stores.
EmptySlots ==
    ("Breakfast" :> <<>>) @@ ("Mid-Morning Snack" :> <<>>) @@ ("Lunch" :> <<>>) @@
    ("Afternoon Snack" :> <<>>) @@ ("Dinner" :> <<>>) @@ ("Evening" :> <<>>)

\* d[key] = value on a dict d
DictSet(d, key, value) ==
    [k \in DOMAIN d \cup {key} |-> IF k = key THEN value ELSE d[k]]

\* a day line that keeps the slots of a day already present
DayBranchKeep(mp, line) ==
    IF line \in DOMAIN mp THEN mp ELSE DictSet(mp, line, EmptySlots)

\* meal_plan[current_day] = {...} with current_day = line
DayBranch(mp, line) == DictSet(mp, line, EmptySlots)

\* an assignment that only fills a slot that is still empty
SetSlotIfEmpty(mp, day, slot, value) ==
    IF mp[day][slot] = <<>> THEN [mp EXCEPT ![day] = DictSet(mp[day], slot, value)]
    ELSE mp

\* meal_plan[current_day][slot] = value (current_day is a key of meal_plan)
SetSlot(mp, day, slot, value) ==
    [mp EXCEPT ![day] = DictSet(mp[day], slot, value)]

\* the Evening test written with `in`
EveningMatchAnywhere(line) == Contains(line, EveningPrefix)

\* line.startswith('Evening') or line.startswith('Evening (if needed):')
EveningMatch(line) ==
    StartsWith(line, EveningPrefix) \/ StartsWith(line, EveningIfNeededPrefix)

\* The if/elif chain over the meal types, for a stripped line under the day cd.
SlotBranch(mp, cd, line) ==
    IF StartsWith(line, BreakfastPrefix)
    THEN SetSlot(mp, cd, "Breakfast", Strip(Replace(line, BreakfastPrefix)))
    ELSE IF StartsWith(line, MidMorningSnackPrefix)
    THEN SetSlot(mp, cd, "Mid-Morning Snack", Strip(Replace(line, MidMorningSnackPrefix)))
    ELSE IF StartsWith(line, LunchPrefix)
    THEN SetSlot(mp, cd, "Lunch", Strip(Replace(line, LunchPrefix)))
    ELSE IF StartsWith(line, AfternoonSnackPrefix)
    THEN SetSlot(mp, cd, "Afternoon Snack", Strip(Replace(line, AfternoonSnackPrefix)))
    ELSE IF StartsWith(line, DinnerPrefix)
    THEN SetSlot(mp, cd, "Dinner", Strip(Replace(line, DinnerPrefix)))
    ELSE IF EveningMatch(line)
    THEN SetSlot(mp, cd, "Evening", Strip(ReSubEvening(line)))
    ELSE mp

\* One iteration of `for line in lines`, from the state (mp, cd) on the raw
\* line: the new meal_plan and current_day, and the exception raised if any.
\* A slot assignment reads meal_plan[current_day], a KeyError if absent.
ParseLine(mp, cd, raw) ==
    LET line == Strip(raw)
    IN  IF line = <<>>
        THEN [meal_plan |-> mp, current_day |-> cd, exc |-> "none"]
        ELSE IF InList(line, days)
        THEN [meal_plan |-> DayBranch(mp, line), current_day |-> line, exc |-> "none"]
        ELSE IF cd # None
        THEN IF cd \in DOMAIN mp
             THEN [meal_plan |-> SlotBranch(mp, cd, line), current_day |-> cd,
                   exc |-> "none"]
             ELSE [meal_plan |-> mp, current_day |-> cd, exc |-> "KeyError"]
        ELSE [meal_plan |-> mp, current_day |-> cd, exc |-> "none"]

(***************************************************************************)
(* create_pdf: the rows of the table.                                      *)
(***************************************************************************)
\* a row with the two snack columns exchanged
PdfRowSwapped(mp, day) ==
    << day, mp[day]["Breakfast"], mp[day]["Afternoon Snack"], mp[day]["Lunch"],
       mp[day]["Mid-Morning Snack"], mp[day]["Dinner"], mp[day]["Evening"] >>

\* row = [day, meal_plan[day]['Breakfast'], ...]
PdfRow(mp, day) ==
    << day, mp[day]["Breakfast"], mp[day]["Mid-Morning Snack"], mp[day]["Lunch"],
       mp[day]["Afternoon Snack"], mp[day]["Dinner"], mp[day]["Evening"] >>

\* for day in days: if day in meal_plan: table_data.append(row), after the
\* rows built so far for the first n days
RECURSIVE PdfRows(_, _)
PdfRows(mp, n) ==
    IF n = 0 THEN <<>>
    ELSE PdfRows(mp, n - 1) \o
         (IF PdfDays[n] \in DOMAIN mp THEN <<PdfRow(mp, PdfDays[n])>> ELSE <<>>)

\* table_data when the loop over days is over
TableData(mp) == <<header>> \o PdfRows(mp, Len(PdfDays))

(***************************************************************************)
(* The input files explored.                                               *)
(***************************************************************************)
MaxLines == 3

\* Lines a meal plan file may hold: day lines (bare, padded, CRLF-ended and
\* a near miss), lines for every slot prefix, Evening lines with one colon,
\* two colons and none, blank lines and lines no rule matches. In order:
\*   Monday | Tuesday | " Sunday\r" | Mondays | (empty) | " \t"
\*   Breakfast: Eggs | Breakfast: Tea Breakfast: Eggs
\*   Mid-Morning Snack: Nuts | " Lunch: Rice\t" | Lunch:Dal
\*   Afternoon Snack: Fig | Dinner:
\*   Evening snack: Herbal tea | Evening (if needed): Tea: mint
\*   Evening walk | Good Evening: Milk
LinePool ==
    { Monday, Tuesday, <<" ","S","u","n","d","a","y","\r">>, <<"M","o","n","d","a","y","s">>, <<>>, <<" ","\t">>,
      <<"B","r","e","a","k","f","a","s","t",":"," ","E","g","g","s">>, <<"B","r","e","a","k","f","a","s","t",":"," ","T","e","a"," ","B","r","e","a","k","f","a","s","t",":"," ","E","g","g","s">>,
      <<"M","i","d","-","M","o","r","n","i","n","g"," ","S","n","a","c","k",":"," ","N","u","t","s">>, <<" ","L","u","n","c","h",":"," ","R","i","c","e","\t">>, <<"L","u","n","c","h",":","D","a","l">>,
      <<"A","f","t","e","r","n","o","o","n"," ","S","n","a","c","k",":"," ","F","i","g">>, <<"D","i","n","n","e","r",":">>,
      <<"E","v","e","n","i","n","g"," ","s","n","a","c","k",":"," ","H","e","r","b","a","l"," ","t","e","a">>, <<"E","v","e","n","i","n","g"," ","(","i","f"," ","n","e","e","d","e","d",")",":"," ","T","e","a",":"," ","m","i","n","t">>,
      <<"E","v","e","n","i","n","g"," ","w","a","l","k">>, <<"G","o","o","d"," ","E","v","e","n","i","n","g",":"," ","M","i","l","k">> }

\* Files of at most MaxLines lines of the pool.
PoolFiles == UNION {[1..n -> LinePool] : n \in 0..MaxLines}

\* Files naming any set of days once each, in reverse week order.
WeekFiles ==
    LET reversed == [i \in 1..Len(days) |-> days[Len(days) + 1 - i]]
    IN  {SelectSeq(reversed, LAMBDA d : d \in S) : S \in SUBSET {days[i] : i \in 1..Len(days)}}

\* The file of the end-to-end scenario.
SampleFile ==
    << Monday, <<"B","r","e","a","k","f","a","s","t",":"," ","O","a","t","m","e","a","l"," ","w","i","t","h"," ","b","a","n","a","n","a">>, <<"L","u","n","c","h",":"," ","G","r","i","l","l","e","d"," ","c","h","i","c","k","e","n"," ","s","a","l","a","d">>,
       <<"D","i","n","n","e","r",":"," ","S","a","l","m","o","n"," ","a","n","d"," ","r","i","c","e">> >>

\* '\n'.join(ls)
RECURSIVE Join(_)
Join(ls) ==
    IF ls = <<>> THEN <<>>
    ELSE IF Len(ls) = 1 THEN ls[1]
    ELSE ls[1] \o <<"\n">> \o Join(Tail(ls))

Contents == {Join(ls) : ls \in PoolFiles \cup WeekFiles \cup {SampleFile}}

(***************************************************************************)
(* The main script.                                                        *)
(***************************************************************************)
Init ==
    /\ pc = "main"
    /\ content \in Contents
    /\ lines = <<>>
    /\ idx = 0
    /\ current_day = None
    /\ meal_plan = EmptyDict
    /\ table_data = <<>>
    /\ console = <<>>
    /\ output = "absent"
    /\ exc = "none"

\* print(f"Parsing meal plan from {input_file}...")
MainPrintParsing ==
    /\ pc = "main"
    /\ console' = Append(console, MsgParsing)
    /\ pc' = "open"
    /\ UNCHANGED <<content, lines, idx, current_day, meal_plan, table_data, output, exc>>

\* open() raises and a handler swallows it, returning an empty plan
ParseOpenSwallowed ==
    /\ pc = "open"
    /\ exc' = "OSError(open)"
    /\ pc' = "print_generating"
    /\ UNCHANGED <<content, lines, idx, current_day, meal_plan, table_data, console, output>>

\* open(file_path) raises: nothing handles it and the script ends.
ParseOpenFails ==
    /\ pc = "open"
    /\ exc' = "OSError(open)"
    /\ pc' = "failed"
    /\ UNCHANGED <<content, lines, idx, current_day, meal_plan, table_data, console, output>>

\* The file is read; meal_plan = {}, current_day = None, lines = content.split('\n').
ParseOpenRead ==
    /\ pc = "open"
    /\ lines' = Split(content)
    /\ meal_plan' = EmptyDict
    /\ current_day' = None
    /\ idx' = 0
    /\ pc' = "scan"
    /\ UNCHANGED <<content, table_data, console, output, exc>>

\* One iteration of the loop, on lines[idx + 1].
ParseScanLine ==
    /\ pc = "scan"
    /\ idx < Len(lines)
    /\ LET r == ParseLine(meal_plan, current_day, lines[idx + 1])
       IN  /\ meal_plan' = r.meal_plan
           /\ current_day' = r.current_day
           /\ exc' = r.exc
           /\ pc' = IF r.exc = "none" THEN "scan" ELSE "failed"
    /\ idx' = idx + 1
    /\ UNCHANGED <<content, lines, table_data, console, output>>

\* return meal_plan
ParseReturn ==
    /\ pc = "scan"
    /\ idx = Len(lines)
    /\ pc' = "print_generating"
    /\ UNCHANGED <<content, lines, idx, current_day, meal_plan, table_data, console, output, exc>>

\* print(f"Generating PDF: {output_file}...")
MainPrintGenerating ==
    /\ pc = "print_generating"
    /\ console' = Append(console, MsgGenerating)
    /\ pc' = "create_pdf"
    /\ UNCHANGED <<content, lines, idx, current_day, meal_plan, table_data, output, exc>>

\* create_pdf builds the table and doc.build writes the document.
CreatePdf ==
    /\ pc = "create_pdf"
    /\ table_data' = TableData(meal_plan)
    /\ output' = "written"
    /\ pc' = "print_success"
    /\ UNCHANGED <<content, lines, idx, current_day, meal_plan, console, exc>>

\* doc.build cannot write the destination: the table was built, the file is
\* absent or partial, and the script ends.
CreatePdfFails ==
    /\ pc = "create_pdf"
    /\ table_data' = TableData(meal_plan)
    /\ output' \in {"absent", "partial"}
    /\ exc' = "OSError(write)"
    /\ pc' = "failed"
    /\ UNCHANGED <<content, lines, idx, current_day, meal_plan, console>>

\* print(f"... PDF created successfully: {output_file}")
MainPrintSuccess ==
    /\ pc = "print_success"
    /\ console' = Append(console, MsgSuccess)
    /\ pc' = "done"
    /\ UNCHANGED <<content, lines, idx, current_day, meal_plan, table_data, output, exc>>

Next ==
    \/ MainPrintParsing
    \/ ParseOpenFails
    \/ ParseOpenRead
    \/ ParseScanLine
    \/ ParseReturn
    \/ MainPrintGenerating
    \/ CreatePdf
    \/ CreatePdfFails
    \/ MainPrintSuccess

Spec == Init /\ [][Next]_vars

(***************************************************************************)
(* Vocabulary of the properties.                                           *)
(***************************************************************************)
\* The canonical week order and the set of the seven day literals.
WeekOrder == <<Monday, Tuesday, Wednesday, Thursday, Friday, Saturday, Sunday>>

DayLiterals == {WeekOrder[i] : i \in 1..Len(WeekOrder)}

\* The six slot keys in column order, and the text that opens each slot's line.
SlotOrder ==
    <<"Breakfast", "Mid-Morning Snack", "Lunch", "Afternoon Snack", "Dinner", "Evening">>

SlotNames == {SlotOrder[k] : k \in 1..Len(SlotOrder)}

SlotOpening ==
    << <<"B","r","e","a","k","f","a","s","t",":">>, <<"M","i","d","-","M","o","r","n","i","n","g"," ","S","n","a","c","k",":">>, <<"L","u","n","c","h",":">>, <<"A","f","t","e","r","n","o","o","n"," ","S","n","a","c","k",":">>,
       <<"D","i","n","n","e","r",":">>, <<"E","v","e","n","i","n","g">> >>

\* The slots whose opening text is a literal prefix ending in a colon.
ColonSlots == 1..(Len(SlotOrder) - 1)

ColumnOrder ==
    << <<"D","a","y">>, <<"B","r","e","a","k","f","a","s","t">>, <<"M","i","d","-","M","o","r","n","i","n","g"," ","S","n","a","c","k">>, <<"L","u","n","c","h">>, <<"A","f","t","e","r","n","o","o","n"," ","S","n","a","c","k">>,
       <<"D","i","n","n","e","r">>, <<"E","v","e","n","i","n","g">> >>

Messages == <<MsgParsing, MsgGenerating, MsgSuccess>>

IsDayLine(raw) == Strip(raw) \in DayLiterals

Opens(raw, k) == StartsWith(Strip(raw), SlotOpening[k])

Min(S) == CHOOSE x \in S : \A y \in S : x <= y

Max(S) == CHOOSE x \in S : \A y \in S : y <= x

\* The positions of the colons of s after its first seven characters ("Evening").
ColonsAfterEvening(s) == {i \in (Len(SlotOpening[Len(SlotOrder)]) + 1)..Len(s) : s[i] = ":"}

\* Among the first n lines: the last line naming day d, and the end of the
\* block a day line at i opens (the next day line, or n + 1).
LastDayLine(d, n) == Max({i \in 1..n : Strip(lines[i]) = d})

BlockEnd(i, n) == Min({j \in (i + 1)..n : IsDayLine(lines[j])} \cup {n + 1})

\* The mapping the loop builds from an empty one over the lines ls alone.
RECURSIVE ParseFrom(_, _, _)
ParseFrom(mp, cd, ls) ==
    IF ls = <<>> THEN mp
    ELSE LET r == ParseLine(mp, cd, Head(ls))
         IN  ParseFrom(r.meal_plan, r.current_day, Tail(ls))

ParseAlone(ls) == ParseFrom(EmptyDict, None, ls)

\* The days of the body rows of the table, top to bottom.
BodyDays == [i \in 1..(Len(table_data) - 1) |-> table_data[i + 1][1]]

\* A line the scan is to ignore under the cursor cd: blank, or not a day
\* line and either opening no slot or met before any day.
Ignored(raw, cd) ==
    LET l == Strip(raw)
    IN  \/ l = <<>>
        \/ /\ l \notin DayLiterals
           /\ \/ cd = None
              \/ \A k \in 1..Len(SlotOrder) : ~StartsWith(l, SlotOpening[k])

C2_RowsInWeekOrder ==
    table_data # <<>> =>
        BodyDays = SelectSeq(WeekOrder,
                             LAMBDA d : \E i \in 1..Len(lines) : Strip(lines[i]) = d)

\* Tuesday, Monday, Tuesday in the input; the rows are Monday, Tuesday.
C2_Witness ==
    /\ pc = "done"
    /\ \E i, j, k \in 1..Len(lines) :
          /\ i < j /\ j < k
          /\ Strip(lines[i]) = Tuesday
          /\ Strip(lines[j]) = Monday
          /\ Strip(lines[k]) = Tuesday
    /\ BodyDays = <<Monday, Tuesday>>

(***************************************************************************)
(* C3: a line made of one of the five colon prefixes followed by a text t, *)
(* met under a current day, sets that day's slot to the rest of the line   *)
(* after the leading prefix, trimmed, whatever t contains.                 *)
(***************************************************************************)
C3_SlotIsTrimmedRemainder ==
    \A k \in ColonSlots :
        (idx > 0 /\ current_day # None /\ StartsWith(lines[idx], SlotOpening[k]))
            => meal_plan[current_day][SlotOrder[k]]
                   = Strip(Drop(lines[idx], Len(SlotOpening[k])))

(***************************************************************************)
(* C4, as stated: ANY line beginning with "Evening", met under a current   *)
(* day, sets the Evening slot to the trimmed text that follows the first   *)
(* colon after "Evening" (so the line has such a colon).                   *)
(***************************************************************************)
C4_EveningAnyLine ==
    LET l == IF idx > 0 THEN Strip(lines[idx]) ELSE <<>>
    IN  (idx > 0 /\ current_day # None /\ StartsWith(l, SlotOpening[Len(SlotOrder)]))
            => /\ ColonsAfterEvening(l) # {}
               /\ meal_plan[current_day]["Evening"]
                      = Strip(Drop(l, Min(ColonsAfterEvening(l))))

(***************************************************************************)
(* C4, amended: a line beginning with "Evening" THAT HOLDS A COLON, met    *)
(* under a current day, sets the Evening slot to the trimmed text that     *)
(* follows its first colon; later colons are kept.                         *)
(***************************************************************************)
C4_EveningAfterFirstColon ==
    LET l == IF idx > 0 THEN Strip(lines[idx]) ELSE <<>>
    IN  (/\ idx > 0
         /\ current_day # None
         /\ StartsWith(l, SlotOpening[Len(SlotOrder)])
         /\ ColonsAfterEvening(l) # {})
            => meal_plan[current_day]["Evening"]
                   = Strip(Drop(l, Min(ColonsAfterEvening(l))))

\* An Evening line with two colons was scanned; the slot keeps the second.
C4_Witness ==
    /\ idx > 0
    /\ current_day # None
    /\ StartsWith(Strip(lines[idx]), SlotOpening[Len(SlotOrder)])
    /\ Cardinality(ColonsAfterEvening(Strip(lines[idx]))) >= 2
    /\ \E i \in 1..Len(meal_plan[current_day]["Evening"]) :
          meal_plan[current_day]["Evening"][i] = ":"

(***************************************************************************)
(* C5: a day literal met again resets the six slots of that day, so the    *)
(* slots of a day are those of the lines after the last occurrence of its  *)
(* literal, up to the next day literal; earlier blocks are never merged.   *)
(***************************************************************************)
C5_LastBlockOnly ==
    /\ (idx > 0 /\ IsDayLine(lines[idx])) =>
           \A s \in SlotNames : meal_plan[Strip(lines[idx])][s] = <<>>
    /\ \A d \in DOMAIN meal_plan :
           LET i == LastDayLine(d, idx)
               j == BlockEnd(i, idx)
           IN  meal_plan[d] = ParseAlone(SubSeq(lines, i, j - 1))[d]

\* A day, a line setting one of its slots, the same day again: the slot is empty.
C5_Witness ==
    \E i, j \in 1..idx :
        /\ i < j /\ j < idx
        /\ IsDayLine(lines[i])
        /\ Strip(lines[idx]) = Strip(lines[i])
        /\ \E k \in 1..Len(SlotOrder) :
              /\ Opens(lines[j], k)
              /\ ParseAlone(SubSeq(lines, i, j))[Strip(lines[i])][SlotOrder[k]] # <<>>
              /\ meal_plan[Strip(lines[idx])][SlotOrder[k]] = <<>>

(***************************************************************************)
(* C6: a blank line, a line that is no day literal and opens no slot, and  *)
(* a line that is no day literal met before the first day literal, leave   *)
(* the mapping and the current-day cursor unchanged and raise no error.    *)
(***************************************************************************)
C6_IgnoredLinesChangeNothing ==
    [][ (pc = "scan" /\ idx < Len(lines) /\ Ignored(lines[idx + 1], current_day))
            => /\ meal_plan' = meal_plan
               /\ current_day' = current_day
               /\ exc' = "none"
               /\ pc' = "scan"
               /\ idx' = idx + 1 ]_vars

\* A non-blank line no rule matches was scanned under a day that holds a value.
C6_Witness ==
    /\ pc = "scan"
    /\ idx > 0
    /\ current_day # None
    /\ Strip(lines[idx]) # <<>>
    /\ Ignored(lines[idx], current_day)
    /\ \E s \in SlotNames : meal_plan[current_day][s] # <<>>

(***************************************************************************)
(* C7: when two lines of the same day block open the same slot, the slot   *)
(* holds the value of the later line, and no error is raised.              *)
(***************************************************************************)
C7_LaterLineWins ==
    /\ exc # "KeyError"
    /\ \A d \in DOMAIN meal_plan : \A k \in 1..Len(SlotOrder) :
           LET i == LastDayLine(d, idx)
               j == BlockEnd(i, idx)
               M == {m \in (i + 1)..(j - 1) : Opens(lines[m], k)}
           IN  Cardinality(M) >= 2 =>
                   meal_plan[d][SlotOrder[k]]
                       = ParseAlone(<<d, lines[Max(M)]>>)[d][SlotOrder[k]]

\* Two lines of the current block open the same slot with different values.
C7_Witness ==
    /\ current_day # None
    /\ \E m, n \in 1..idx : \E k \in 1..Len(SlotOrder) :
          /\ LastDayLine(current_day, idx) < m /\ m < n
          /\ Opens(lines[m], k) /\ Opens(lines[n], k)
          /\ ParseAlone(<<current_day, lines[m]>>)[current_day][SlotOrder[k]]
                # ParseAlone(<<current_day, lines[n]>>)[current_day][SlotOrder[k]]

(***************************************************************************)
(* C8: the table is a header row followed by 0 to 7 body rows; every row   *)
(* has 7 cells in the column order Day, Breakfast, Mid-Morning Snack,      *)
(* Lunch, Afternoon Snack, Dinner, Evening; for an empty input the mapping *)
(* is empty and the table is the header row alone.                         *)
(***************************************************************************)
C8_TableShape ==
    /\ table_data # <<>> =>
          /\ Len(table_data) - 1 \in 0..Len(WeekOrder)
          /\ \A r \in 1..Len(table_data) : Len(table_data[r]) = Len(ColumnOrder)
          /\ \A c \in 1..Len(ColumnOrder) :
                Replace(table_data[1][c], <<"<","b","r","/",">">>) = Replace(ColumnOrder[c], <<" ">>)
          /\ \A r \in 2..Len(table_data) :
                /\ table_data[r][1] \in DOMAIN meal_plan
                /\ \A k \in 1..Len(SlotOrder) :
                      table_data[r][k + 1] = meal_plan[table_data[r][1]][SlotOrder[k]]
    /\ content = <<>> =>
          /\ meal_plan = EmptyDict
          /\ table_data # <<>> => Len(table_data) = 1

\* A whole week was rendered: the header and seven body rows.
C8_Witness ==
    /\ pc = "done"
    /\ Len(table_data) = Len(WeekOrder) + 1

(***************************************************************************)
(* C9: the console shows parse-start, generate-start, success in that      *)
(* order; success is printed only once the document is written; when the   *)
(* input cannot be opened the run fails after parse-start, prints nothing  *)
(* more and writes no output.                                              *)
(***************************************************************************)
C9_ConsoleOrder ==
    /\ Len(console) <= Len(Messages)
    /\ console = SubSeq(Messages, 1, Len(console))
    /\ Len(console) = Len(Messages) => output = "written"
    /\ pc = "done" => console = Messages
    /\ exc = "OSError(open)" =>
          /\ pc = "failed"
          /\ console = <<MsgParsing>>
          /\ output = "absent"
          /\ table_data = <<>>

\* A run that ended well: the three messages, the document written.
C9_Witness ==
    /\ pc = "done"
    /\ console = Messages
    /\ output = "written"

(***************************************************************************)
(* C10: a line beginning with "Evening" that holds no colon, met under a   *)
(* current day, overwrites the Evening slot with the whole trimmed line.   *)
(***************************************************************************)
C10_EveningNoColonKeepsLine ==
    LET l == IF idx > 0 THEN Strip(lines[idx]) ELSE <<>>
    IN  (/\ idx > 0
         /\ current_day # None
         /\ StartsWith(l, SlotOpening[Len(SlotOrder)])
         /\ \A i \in 1..Len(l) : l[i] # ":")
            => meal_plan[current_day]["Evening"] = l

\* An Evening line with a colon set the slot, then one without a colon
\* took its place.
C10_Witness ==
    /\ idx > 1
    /\ current_day # None
    /\ ~IsDayLine(lines[idx - 1])
    /\ Opens(lines[idx - 1], Len(SlotOrder))
    /\ ColonsAfterEvening(Strip(lines[idx - 1])) # {}
    /\ Opens(lines[idx], Len(SlotOrder))
    /\ ColonsAfterEvening(Strip(lines[idx])) = {}
    /\ meal_plan[current_day]["Evening"] = Strip(lines[idx])
=============================================================================
